---- MODULE Spec2Model ----
(***************************************************************************)
(* pyvultr: the lazy cursor-based pagination container VultrPagination     *)
(* (pyvultr/utils/pagination.py) over a paginated list endpoint.           *)
(*                                                                         *)
(* Python values are represented as follows.                               *)
(*   None / Optional[x] : a sequence of length <= 1, None == << >>         *)
(*   str                : a TLA+ string                                    *)
(*   list               : a sequence                                       *)
(*   dict               : a function from key strings to values            *)
(*   a raised exception : the field exc of a result record, "" = returned  *)
(***************************************************************************)
EXTENDS Integers, Sequences, FiniteSets, TLC

\* ------------------------------------------------------------------ bounds
\* Longest remote list the server holds.
MaxRemote == 3
\* Largest page_size (per_page) a caller passes.
MaxPage == 2
\* Largest capacity a caller passes.
MaxCap == 3
\* Largest integer index / slice stop a caller passes.
MaxIdx == 4
\* Largest slice start a caller passes.
MaxStart == 2
\* Farthest index from the tail a caller passes: c[-MaxBack].
MaxBack == 1
\* Most requests the server answers well before an armed fault.
MaxSkip == 1
\* Last tick of the clock.
MaxTime == 5

\* Stand-in for sys.maxsize: larger than every index the bounds allow.
SysMaxSize == 1000000

\* Items per page the server returns when the request has no per_page.
DefaultPerPage == 2

\* ------------------------------------------------------- Python primitives
None == << >>
Some(x) == <<x>>

Min(a, b) == IF a < b THEN a ELSE b
Max(a, b) == IF a > b THEN a ELSE b

\* lst[:n] for n >= 0
Take(lst, n) == SubSeq(lst, 1, Min(n, Len(lst)))

\* lst[i] for an int i: the item, or IndexError
PyIndex(lst, i) ==
  IF i >= 0 /\ i < Len(lst) THEN [exc |-> "", ret |-> Some(lst[i + 1])]
  ELSE IF i < 0 /\ -i <= Len(lst) THEN [exc |-> "", ret |-> Some(lst[Len(lst) + i + 1])]
  ELSE [exc |-> "IndexError", ret |-> None]

\* slice.indices(n): the clamped start of lst[start:stop:step], step # 0
SliceStart(start, step, n) ==
  LET lower == IF step > 0 THEN 0 ELSE -1
      upper == IF step > 0 THEN n ELSE n - 1
  IN IF start = None THEN (IF step < 0 THEN upper ELSE lower)
     ELSE IF start[1] < 0 THEN Max(start[1] + n, lower)
     ELSE Min(start[1], upper)

\* slice.indices(n): the clamped stop of lst[start:stop:step], step # 0
SliceStop(stop, step, n) ==
  LET lower == IF step > 0 THEN 0 ELSE -1
      upper == IF step > 0 THEN n ELSE n - 1
  IN IF stop = None THEN (IF step < 0 THEN lower ELSE upper)
     ELSE IF stop[1] < 0 THEN Max(stop[1] + n, lower)
     ELSE Min(stop[1], upper)

RECURSIVE SliceWalk(_, _, _, _)
\* the items of lst at 0-based positions i, i+step, ... before stop
SliceWalk(lst, i, stop, step) ==
  IF (step > 0 /\ i >= stop) \/ (step < 0 /\ i <= stop) THEN << >>
  ELSE <<lst[i + 1]>> \o SliceWalk(lst, i + step, stop, step)

\* lst[start:stop:step] for a slice (start, stop, step of Optional[int])
PySlice(lst, seg) ==
  LET step == IF seg.step = None THEN 1 ELSE seg.step[1]
  IN IF step = 0 THEN [exc |-> "ValueError", ret |-> << >>]
     ELSE [exc |-> "",
           ret |-> SliceWalk(lst, SliceStart(seg.start, step, Len(lst)),
                             SliceStop(seg.stop, step, Len(lst)), step)]

\* ------------------------------------------------------------------- state
VARIABLES
  remote,        \* server: the remote list behind the endpoint
  style,         \* server: how the last page signals exhaustion
  fault,         \* server: the malformed / failing answer armed, "none" if none
  faultIn,       \* server: the requests answered well before the armed one
  data,          \* self.data, the cache
  cursor,        \* self.cursor: None, Some(token) or Some("")
  state,         \* self.state
  idx,           \* self.__idx, the iteration position
  capacity,      \* self.capacity
  page_size,     \* self.page_size
  extra_params,  \* self.extra_params
  pc,            \* "init": fields assigned, check_prefetch not yet run;
                 \* "ready": __init__ returned; "failed": __init__ raised
  start,         \* history: the cursor argument of __init__
  lastOp,        \* history: the last call on the collection and its outcome
  iter,          \* history: the items and fetcher calls of the running
                 \* iteration pass and of the passes completed before it
  fetched,       \* history: the item lists of the pages the fetcher has
                 \* returned so far, one after the other
  run,           \* the read in progress when get_by_idx is followed fetch
                 \* by fetch: the call, the index get_by_idx looks for and
                 \* how its last fetch ended; Idle when none is
  now,           \* time.time(), in ticks
  LATEST_REQ_AT, \* pyvultr.v2.base.LATEST_REQ_AT, the module global
  gate,          \* the threads inside BaseAPI._request: for each its
                 \* position, the local req_at, and as history the value of
                 \* LATEST_REQ_AT it compared with and whether it slept
  issued,        \* history: the last two requests sent, oldest first
  boxIn,         \* the argument a pyvultr.utils.box helper is called with,
                 \* as it was before the call
  boxOut,        \* history: the helper called, what it returned and its
                 \* argument as the call left it
  loops,         \* the for loops over the collection: for each where it
                 \* stands and, as history, the items it has received
  objs           \* two collections side by side: the fields of each

\* the collection and its server
pagVars == <<remote, style, fault, faultIn, data, cursor, state, idx, capacity,
             page_size, extra_params, pc, start, lastOp, iter, fetched, run>>
\* the request gate
gateVars == <<now, LATEST_REQ_AT, gate, issued>>

\* a call of a helper of pyvultr.utils.box
boxVars == <<boxIn, boxOut>>

\* what the calls on a collection, the steps of the gate and the helper
\* calls leave alone
offPag == <<gateVars, boxVars, loops, objs>>
offGate == <<pagVars, boxVars, loops, objs>>
offBox == <<pagVars, gateVars, loops, objs>>

vars == <<pagVars, gateVars, boxVars, loops, objs>>

\* the i-th item the server holds (1-based); positions 1 and 3 hold equal items
Item(i) == <<"A", "B", "A", "C", "B", "D">>[((i - 1) % 6) + 1]

\* cursor tokens the server issues: Token(k) names offset k
TokenNames == <<"t1", "t2", "t3", "t4", "t5", "t6", "t7", "t8">>
Token(k) == TokenNames[k]
\* the offset a cursor names; the server starts over on a cursor it does not know
OffsetOf(tok) ==
  IF \E k \in 1..Len(TokenNames) : TokenNames[k] = tok
  THEN CHOOSE k \in 1..Len(TokenNames) : TokenNames[k] = tok
  ELSE 0

\* ------------------------------------------------------------------ server
\* The list endpoint behind the fetcher: the page the server answers to the
\* query params (cursor = offset token, per_page = page length).  The last
\* page signals exhaustion by an empty next link ("emptyNext"), by a links
\* object without next ("absentNext"), by a null next link ("nullNext"), or
\* it still names a token and the page after it is empty ("emptyPage").
\* links.next is an Optional[str]: None is JSON null.
ServerPage(params) ==
  LET per   == IF "per_page" \in DOMAIN params THEN params["per_page"][1] ELSE DefaultPerPage
      off   == IF "cursor" \in DOMAIN params THEN OffsetOf(params["cursor"][1]) ELSE 0
      T     == Len(remote)
      n     == IF off >= T THEN 0 ELSE Min(per, T - off)
      items == [i \in 1..n |-> remote[off + i]]
      links == IF n = 0 THEN [next |-> Some(""), prev |-> ""]
               ELSE IF off + n < T THEN [next |-> Some(Token(off + n)), prev |-> ""]
               ELSE IF style = "emptyNext" THEN [next |-> Some(""), prev |-> ""]
               ELSE IF style = "absentNext" THEN [prev |-> ""]
               ELSE IF style = "nullNext" THEN [next |-> None, prev |-> ""]
               ELSE [next |-> Some(Token(T)), prev |-> ""]
  IN [meta |-> [links |-> links, total |-> T], items |-> items]

\* The answer with the armed fault applied: a body without meta, with no
\* resource key, or with two resource keys.
Malformed(page, f) ==
  IF f = "nometa" THEN [items |-> page.items]
  ELSE IF f = "nokey" THEN [meta |-> page.meta]
  ELSE IF f = "twokeys" THEN [meta |-> page.meta, items |-> page.items, extra |-> << >>]
  ELSE page

\* --------------------------------------------------------- pyvultr.utils.box
\* remove_none: {k: v for k, v in d.items() if v is not None}
remove_none(d) ==
  IF DOMAIN d = {} THEN << >>
  ELSE [k \in {j \in DOMAIN d : d[j] # None} |-> d[k]]

\* get_only_value: the value of the only key, None otherwise; the values
\* of d are Python values, None or Some(v)
get_only_value(d) ==
  IF Cardinality(DOMAIN d) # 1 THEN None
  ELSE d[CHOOSE k \in DOMAIN d : TRUE]

\* Mutant of remove_none_call: a falsy argument is returned as it is.
remove_none_same(x) ==
  [ret |-> IF x = None \/ x = Some(<< >>) THEN x ELSE Some(remove_none(x[1])), d |-> x]

\* remove_none(x) for an Optional[Dict] x, None or Some(d): the dict
\* returned, and the argument after the call
remove_none_call(x) ==
  [ret |-> Some(IF x = None THEN << >> ELSE remove_none(x[1])), d |-> x]

\* Mutant of get_only_value_call: the value is taken out with d.popitem().
get_only_value_pop(x) ==
  [ret |-> get_only_value(x[1]),
   d |-> IF Cardinality(DOMAIN x[1]) = 1 THEN Some(<< >>) ELSE x]

\* get_only_value(x) for a dict x = Some(d): the value returned, and the
\* argument after the call
get_only_value_call(x) == [ret |-> get_only_value(x[1]), d |-> x]

\* BaseAPI._get: _params = remove_none(params) or None, the params sent
get_params(x) ==
  [ret |-> IF remove_none_call(x).ret = Some(<< >>) THEN None ELSE remove_none_call(x).ret,
   d |-> remove_none_call(x).d]

\* ------------------------------------------------------------ VultrPagination
\* The object as the methods see it; sent lists the query params of the
\* fetcher calls made so far by the running call.
Self ==
  [data |-> data, cursor |-> cursor, state |-> state, idx |-> idx,
   capacity |-> capacity, page_size |-> page_size, extra_params |-> extra_params,
   fault |-> fault, faultIn |-> faultIn, sent |-> << >>]

Return(self, v) == [self |-> self, exc |-> "", ret |-> v]
Raise(self, e)  == [self |-> self, exc |-> e, ret |-> None]

\* Mutant of params: the extra filter parameters are left out.
params_bare(self) ==
  remove_none([k \in {"per_page", "cursor"} |->
                 IF k = "per_page" THEN self.page_size ELSE self.cursor])

\* VultrPagination.params
params(self) ==
  remove_none([k \in DOMAIN self.extra_params \cup {"per_page", "cursor"} |->
                 IF k = "per_page" THEN self.page_size
                 ELSE IF k = "cursor" THEN self.cursor
                 ELSE self.extra_params[k]])

\* self.fetcher(params=self.params): the resource client's GET; a non-2xx
\* answer raises APIException (BaseVultrV2.after_response)
request(self, p) ==
  IF self.fault # "none" /\ self.faultIn > 0
  THEN Return([self EXCEPT !.sent = Append(@, p), !.faultIn = @ - 1], ServerPage(p))
  ELSE IF self.fault = "http"
  THEN Raise([self EXCEPT !.sent = Append(@, p), !.fault = "none"], "APIException")
  ELSE Return([self EXCEPT !.sent = Append(@, p), !.fault = "none"],
              Malformed(ServerPage(p), self.fault))

\* self.fetcher(params=self.params)
fetcher(self) == request(self, params(self))

\* PageMeta.from_dict(page_meta).links.next: the field as the body gives it
\* (a null stays None), "" by PageMetaLink's default when it is absent
LinkNext(links) == IF "next" \in DOMAIN links THEN links.next ELSE Some("")

\* Mutant of NextCursor: a null next link is kept as the cursor.
NextCursor_keep(links) == LinkNext(links)

\* meta.links.next or "": the new self.cursor
NextCursor(links) ==
  IF LinkNext(links) = None \/ LinkNext(links) = Some("") THEN Some("")
  ELSE LinkNext(links)

\* Mutant of Truncate: the page is appended whole.
Truncate_whole(self, _data) == _data

\* should_end_at and _data[:should_end_at]
Truncate(self, _data) ==
  IF self.capacity = None THEN _data
  ELSE Take(_data, Max(self.capacity[1] - Len(self.data), 0))

\* raw_data.pop("meta", None): the value popped
pop_meta(raw) == IF "meta" \in DOMAIN raw THEN Some(raw["meta"]) ELSE None

\* raw_data.pop("meta", None): the dict left; the values of a JSON body
\* are Python values, here never null
without_meta(raw) == [k \in DOMAIN raw \ {"meta"} |-> Some(raw[k])]

\* Mutant of fetch_page: an empty item list is rejected like a body without
\* a resource key.
fetch_page_strict(s1, page_meta, _data) ==
  IF page_meta = None \/ page_meta = Some(<< >>) THEN Raise(s1, "UnexpectedPageDataException")
  ELSE IF _data = None THEN Raise(s1, "UnexpectedPageDataException")
  ELSE IF Len(_data[1]) <= 0 THEN Raise(s1, "UnexpectedPageDataException")
  ELSE Return([s1 EXCEPT !.cursor = NextCursor(page_meta[1].links),
                         !.data = @ \o Truncate(s1, _data[1])],
              _data[1])

\* the items of page that lst does not hold yet, in page order
Unseen(lst, page) == SelectSeq(page, LAMBDA x : \A k \in 1..Len(lst) : lst[k] # x)

\* Mutant of fetch_page: items the cache already holds are not appended again.
fetch_page_dedupe(s1, page_meta, _data) ==
  IF page_meta = None \/ page_meta = Some(<< >>) THEN Raise(s1, "UnexpectedPageDataException")
  ELSE IF _data = None THEN Raise(s1, "UnexpectedPageDataException")
  ELSE IF Len(_data[1]) <= 0 THEN Raise(s1, "NoMorePageDataException")
  ELSE Return([s1 EXCEPT !.cursor = NextCursor(page_meta[1].links),
                         !.data = @ \o Unseen(@, Truncate(s1, _data[1]))],
              _data[1])

\* Mutant of fetch_page: the page is returned but neither cached nor is the
\* cursor moved.
fetch_page_stall(s1, page_meta, _data) ==
  IF page_meta = None \/ page_meta = Some(<< >>) THEN Raise(s1, "UnexpectedPageDataException")
  ELSE IF _data = None THEN Raise(s1, "UnexpectedPageDataException")
  ELSE IF Len(_data[1]) <= 0 THEN Raise(s1, "NoMorePageDataException")
  ELSE Return(s1, _data[1])

\* Mutant of fetch_page: the page replaces the cache instead of extending it.
fetch_page_replace(s1, page_meta, _data) ==
  IF page_meta = None \/ page_meta = Some(<< >>) THEN Raise(s1, "UnexpectedPageDataException")
  ELSE IF _data = None THEN Raise(s1, "UnexpectedPageDataException")
  ELSE IF Len(_data[1]) <= 0 THEN Raise(s1, "NoMorePageDataException")
  ELSE Return([s1 EXCEPT !.cursor = NextCursor(page_meta[1].links),
                         !.data = Truncate(s1, _data[1])],
              _data[1])

\* VultrPagination.fetch from the meta check on: s1 is the object after
\* self.state = FetchAble, _data is get_only_value(raw_data)
fetch_page(s1, page_meta, _data) ==
  IF page_meta = None \/ page_meta = Some(<< >>) THEN Raise(s1, "UnexpectedPageDataException")
  ELSE IF _data = None THEN Raise(s1, "UnexpectedPageDataException")
  ELSE IF Len(_data[1]) <= 0 THEN Raise(s1, "NoMorePageDataException")
  ELSE Return([s1 EXCEPT !.cursor = NextCursor(page_meta[1].links),
                         !.data = @ \o Truncate(s1, _data[1])],
              _data[1])

\* Mutant of fetch_answer: self.state = FetchAble is assigned although the
\* fetcher raised.
fetch_answer_early(call) ==
  IF call.exc # "" THEN [call EXCEPT !.self.state = "FetchAble"]
  ELSE fetch_page([call.self EXCEPT !.state = "FetchAble"],
                  pop_meta(call.ret), get_only_value(without_meta(call.ret)))

\* VultrPagination.fetch after the fetcher call: an exception of the
\* fetcher propagates, otherwise self.state = FetchAble and the body is read
fetch_answer(call) ==
  IF call.exc # "" THEN call
  ELSE fetch_page([call.self EXCEPT !.state = "FetchAble"],
                  pop_meta(call.ret), get_only_value(without_meta(call.ret)))

\* Mutant of fetch: the cursor == "" guard is missing.
fetch_unguarded(self) == fetch_answer(fetcher(self))

\* VultrPagination.fetch (return_type None: items are kept raw)
fetch(self) ==
  IF self.cursor = Some("") THEN Raise(self, "NoMorePageDataException")
  ELSE fetch_answer(fetcher(self))

\* a list access lst[key] made by a method: its value or its IndexError
Indexed(self, r) == [self |-> self, exc |-> r.exc, ret |-> r.ret]

RECURSIVE get_by_idx(_, _)
\* VultrPagination.get_by_idx after self.fetch() ended as f
after_fetch(f, i) ==
  IF f.exc = "NoMorePageDataException" THEN
    Raise([f.self EXCEPT !.state = "NoMoreData"], "OutOfRangePageDataException")
  ELSE IF f.exc # "" THEN Raise(f.self, f.exc)
  ELSE get_by_idx(f.self, i)

\* Mutant of get_by_idx: the item counts as cached only when another one
\* is cached behind it.
get_by_idx_ahead(self, i) ==
  IF self.data # << >> /\ i + 1 < Len(self.data) THEN Indexed(self, PyIndex(self.data, i))
  ELSE IF self.data # << >> /\ i < Len(self.data) /\ self.cursor = Some("") THEN
    Indexed(self, PyIndex(self.data, i))
  ELSE IF self.data # << >> /\ self.capacity # None THEN
    Raise(self, "OutOfRangePageDataException")
  ELSE after_fetch(fetch(self), i)

\* VultrPagination.get_by_idx
get_by_idx(self, i) ==
  IF self.data # << >> /\ i < Len(self.data) THEN Indexed(self, PyIndex(self.data, i))
  ELSE IF self.data # << >> /\ self.capacity # None THEN
    Raise(self, "OutOfRangePageDataException")
  ELSE after_fetch(fetch(self), i)

\* Mutant of max_idx: the bound is the slice's start, not max(start, stop - 1).
max_idx_start(_start, _stop, _step) ==
  IF (_stop - _start) * _step <= 0 THEN None
  ELSE IF _start < 0 \/ _stop < 0 THEN Some(SysMaxSize)
  ELSE Some(_start)

\* VultrPagination.calc_max_idx_we_need after the defaults are applied
max_idx(_start, _stop, _step) ==
  IF (_stop - _start) * _step <= 0 THEN None
  ELSE IF _start < 0 \/ _stop < 0 THEN Some(SysMaxSize)
  ELSE Some(Max(_start, _stop - 1))

\* VultrPagination.calc_max_idx_we_need: None for an invalid slice
calc_max_idx_we_need(seg) ==
  max_idx(IF seg.start = None THEN 0 ELSE seg.start[1],
          IF seg.stop = None THEN SysMaxSize ELSE seg.stop[1],
          IF seg.step = None THEN 1 ELSE seg.step[1])

\* VultrPagination.get_by_slice once max_idx_we_need is known
slice_upto(self, max_idx_we_need) ==
  IF max_idx_we_need = None THEN Return(self, None)
  ELSE get_by_idx(self, max_idx_we_need[1])

\* VultrPagination.get_by_slice
get_by_slice(self, seg) == slice_upto(self, calc_max_idx_we_need(seg))

\* Mutant of index_error: OutOfRangePageDataException is not translated.
index_error_leak(r) == r

\* VultrPagination.__getitem__, int key: except OutOfRangePageDataException
index_error(r) ==
  IF r.exc = "OutOfRangePageDataException" THEN Raise(r.self, "IndexError") ELSE r

\* VultrPagination.__getitem__ with an int key
getitem_int(self, key) ==
  IF self.capacity # None THEN Indexed(self, PyIndex(self.data, key))
  ELSE index_error(get_by_idx(self, key))

\* Mutant of slice_data: every exception of get_by_slice is passed over.
slice_data_quiet(g, seg) == Indexed(g.self, PySlice(g.self.data, seg))

\* VultrPagination.__getitem__, slice key: OutOfRangePageDataException is
\* passed over and self.data[key] is returned
slice_data(g, seg) ==
  IF g.exc # "" /\ g.exc # "OutOfRangePageDataException" THEN Raise(g.self, g.exc)
  ELSE Indexed(g.self, PySlice(g.self.data, seg))

\* VultrPagination.__getitem__ with a slice key
getitem_slice(self, seg) ==
  IF self.capacity # None THEN Indexed(self, PySlice(self.data, seg))
  ELSE slice_data(get_by_slice(self, seg), seg)

\* Mutant of first_result: OutOfRangePageDataException is not caught.
first_result_leak(r) == r

\* VultrPagination.first: except OutOfRangePageDataException: return None
first_result(r) ==
  IF r.exc = "OutOfRangePageDataException" THEN Return(r.self, None) ELSE r

\* VultrPagination.first
first(self) == first_result(get_by_idx(self, 0))

\* VultrPagination.__next__ after self[self.__idx] ended as r
next_result(r) ==
  IF r.exc = "" THEN [r EXCEPT !.self.idx = @ + 1]
  ELSE IF r.exc = "IndexError" THEN Raise([r.self EXCEPT !.idx = 0], "StopIteration")
  ELSE r

\* VultrPagination.__next__
next(self) == next_result(getitem_int(self, self.idx))

\* Mutant of iter_self: the position is set back to 0.
iter_rewind(self) == Return([self EXCEPT !.idx = 0], None)

\* VultrPagination.__iter__: return self, which the caller has already
iter_self(self) == Return(self, None)

\* Mutant of check_prefetch: the item asked for is number cnt, not cnt - 1.
check_prefetch_over(self, cnt) ==
  IF cnt # None /\ cnt[1] # 0 /\ cnt[1] > 0 THEN get_by_idx(self, cnt[1])
  ELSE Return(self, None)

\* VultrPagination.check_prefetch
check_prefetch(self, cnt) ==
  IF cnt # None /\ cnt[1] # 0 /\ cnt[1] > 0 THEN get_by_idx(self, cnt[1] - 1)
  ELSE Return(self, None)

\* ------------------------------------------------------------- the machine
OptInts(lo, hi) == {None} \cup {Some(k) : k \in lo..hi}

\* c[a:b] with 0 <= a, b
PlainSlices ==
  {[start |-> Some(a), stop |-> Some(b), step |-> None] : a \in 0..MaxStart, b \in 0..MaxIdx}

\* c[0:b]
HeadSlices == {seg \in PlainSlices : seg.start = Some(0)}

\* c[a:b:s] with a, b omitted, counted from the tail or from the head, and
\* s omitted, backwards or striding
AnySlices ==
  {[start |-> a, stop |-> b, step |-> s] :
     a \in OptInts(-MaxBack, MaxStart), b \in OptInts(-MaxBack, MaxIdx),
     s \in {None, Some(-1), Some(2)}}

\* the bodies the server can answer that are not a page, and a non-2xx answer
BadBodies == {"nometa", "nokey", "twokeys"}
Faults == BadBodies \cup {"http"}

\* the last element of a sequence, as a sequence
LastOne(seq) == IF seq = << >> THEN << >> ELSE <<seq[Len(seq)]>>

\* No pass running, none completed.
NoIter == [passes |-> << >>, items |-> << >>, calls |-> 0, ok |-> TRUE]

\* The iteration history after the call op ended as r.  A pass is the run
\* of next(c) calls up to StopIteration; ok says that the running pass began
\* at position 0 and that no other call came between its steps; passes
\* keeps the last two passes completed one right after the other.
Track(r, op) ==
  IF op # "next" THEN [passes |-> << >>, items |-> iter.items, calls |-> iter.calls,
                       ok |-> iter.ok /\ iter.items = << >>]
  ELSE IF r.exc = "" THEN [iter EXCEPT !.items = Append(@, r.ret[1]),
                                       !.calls = @ + Len(r.self.sent)]
  ELSE IF r.exc = "StopIteration" THEN
    [passes |-> IF ~iter.ok THEN << >>
                ELSE LastOne(iter.passes) \o
                     <<[items |-> iter.items, calls |-> iter.calls + Len(r.self.sent)]>>,
     items |-> << >>, calls |-> 0, ok |-> TRUE]
  ELSE [iter EXCEPT !.ok = FALSE]

RECURSIVE Answered(_, _, _)
\* The items of the pages answered to the requests sent, in order, when the
\* fault f was armed for request number k + 1: that request got no page.
Answered(sent, f, k) ==
  IF sent = << >> THEN << >>
  ELSE (IF f # "none" /\ k = 0 THEN << >> ELSE ServerPage(Head(sent)).items)
       \o Answered(Tail(sent), IF k = 0 THEN "none" ELSE f, k - 1)

NoOp == [op |-> "", key |-> << >>, exc |-> "", ret |-> None, sent |-> << >>]

\* The module just imported (LATEST_REQ_AT = time.time()), no thread in a
\* request.
GateOff ==
  /\ now = 0
  /\ LATEST_REQ_AT = 0
  /\ gate = << >>
  /\ issued = << >>

\* No read in progress.
Idle == [op |-> "", seg |-> None, i |-> None, last |-> "-"]

\* No for loop, no second collection.
NoPeers ==
  /\ loops = << >>
  /\ objs = << >>

\* No collection in use: the threads call a resource client directly.
NoCollection ==
  /\ NoPeers
  /\ remote = << >> /\ style = "emptyNext" /\ fault = "none" /\ faultIn = 0
  /\ data = << >> /\ cursor = None /\ state = "NeverFetch" /\ idx = 0
  /\ capacity = None /\ page_size = None
  /\ extra_params = [label |-> Some("web"), tag |-> None]
  /\ pc = "init" /\ start = None /\ lastOp = NoOp /\ iter = NoIter
  /\ fetched = << >> /\ run = Idle

\* No helper called.
NoCall == [fn |-> "", ret |-> None, d |-> None]
BoxOff ==
  /\ boxIn = None
  /\ boxOut = NoCall

\* The fields as VultrPagination.__init__ assigns them, before check_prefetch.
InitOne ==
  /\ remote \in {[i \in 1..T |-> Item(i)] : T \in 0..MaxRemote}
  /\ style \in {"emptyNext", "absentNext", "nullNext", "emptyPage"}
  /\ fault = "none"
  /\ faultIn = 0
  /\ data = << >>
  /\ cursor \in {None, Some(""), Some(Token(1))}
  /\ state = "NeverFetch"
  /\ idx = 0
  /\ capacity \in OptInts(0, MaxCap)
  /\ page_size \in OptInts(1, MaxPage)
  /\ extra_params = [label |-> Some("web"), tag |-> None]
  /\ pc = "init"
  /\ start = cursor
  /\ lastOp = NoOp
  /\ iter = NoIter
  /\ fetched = << >>
  /\ run = Idle
  /\ GateOff
  /\ BoxOff

\* One collection, read by direct calls.
Init ==
  /\ InitOne
  /\ NoPeers

\* The call op(key) ended as r: the object's fields and the call's record.
Effect(r, op, key) ==
  /\ data' = r.self.data
  /\ cursor' = r.self.cursor
  /\ state' = r.self.state
  /\ idx' = r.self.idx
  /\ fault' = r.self.fault
  /\ faultIn' = r.self.faultIn
  /\ lastOp' = [op |-> op, key |-> key, exc |-> r.exc, ret |-> r.ret, sent |-> r.self.sent]
  /\ iter' = Track(r, op)
  /\ fetched' = fetched \o Answered(r.self.sent, fault, faultIn)
  /\ UNCHANGED <<remote, style, capacity, page_size, extra_params, start, run>>

\* A call on the collection leaves everything else alone.
Commit(r, op, key) ==
  /\ Effect(r, op, key)
  /\ UNCHANGED offPag

\* VultrPagination.__init__, its last line: self.check_prefetch(self.capacity)
Construct ==
  /\ pc = "init"
  /\ Commit(check_prefetch(Self, capacity), "init", << >>)
  /\ pc' = IF lastOp'.exc = "" THEN "ready" ELSE "failed"

\* c[i]
GetItem(i) ==
  /\ pc = "ready"
  /\ Commit(getitem_int(Self, i), "getitem", <<i>>)
  /\ UNCHANGED pc

\* c[start:stop:step]
GetSlice(seg) ==
  /\ pc = "ready"
  /\ Commit(getitem_slice(Self, seg), "slice", <<seg>>)
  /\ UNCHANGED pc

\* next(c): one iteration step
IterNext ==
  /\ pc = "ready"
  /\ Commit(next(Self), "next", << >>)
  /\ UNCHANGED pc

\* c.first()
First ==
  /\ pc = "ready"
  /\ Commit(first(Self), "first", << >>)
  /\ UNCHANGED pc

\* c.fetch()
Fetch ==
  /\ pc = "ready"
  /\ Commit(fetch(Self), "fetch", << >>)
  /\ UNCHANGED pc

Next ==
  \/ Construct
  \/ \E i \in (-MaxBack)..MaxIdx : GetItem(i)
  \/ \E seg \in PlainSlices : GetSlice(seg)
  \/ IterNext
  \/ First
  \/ Fetch

Spec == Init /\ [][Next]_vars

\* A lazy collection constructed without a cursor, read by every kind of
\* slice.
InitSlice ==
  /\ Init
  /\ capacity = None
  /\ cursor = None
  /\ page_size # None
  /\ style \in {"emptyNext", "emptyPage"}

NextSlice ==
  \/ Construct
  \/ \E i \in (-MaxBack)..MaxIdx : GetItem(i)
  \/ \E seg \in AnySlices : GetSlice(seg)
  \/ Fetch

SpecSlice == InitSlice /\ [][NextSlice]_vars

\* The server is about to fail: after k more well-formed answers it answers
\* the body f, or a non-2xx status, once.
ArmFault(f, k) ==
  /\ pc \in {"init", "ready"}
  /\ fault = "none"
  /\ fault' = f
  /\ faultIn' = k
  /\ UNCHANGED <<remote, style, data, cursor, state, idx, capacity, page_size,
                 extra_params, pc, start, lastOp, iter, fetched, run>>
  /\ UNCHANGED offPag

\* A collection constructed without a cursor over a server that can fail.
InitFault ==
  /\ Init
  /\ cursor = None
  /\ page_size # None
  /\ capacity # Some(0)
  /\ style = "emptyNext"

NextFault ==
  \/ \E f \in Faults, k \in 0..MaxSkip : ArmFault(f, k)
  \/ Construct
  \/ \E i \in (-MaxBack)..MaxIdx : GetItem(i)
  \/ \E seg \in HeadSlices : GetSlice(seg)
  \/ IterNext
  \/ First
  \/ Fetch

SpecFault == InitFault /\ [][NextFault]_vars

\* ------------------------------------------- a read, fetch by fetch
\* A lazy collection constructed without a cursor.
InitLoop ==
  /\ Init
  /\ capacity = None
  /\ cursor = None
  /\ style \in {"emptyNext", "emptyPage"}

\* A read begins: __getitem__, first or __next__ is entered; seg is the
\* slice key if the key is one, i is the index the read will call
\* get_by_idx with, None for a slice that is not fetched for.
StartRead(op, seg, i) ==
  /\ pc = "ready"
  /\ run = Idle
  /\ run' = [op |-> op, seg |-> seg, i |-> i, last |-> "-"]
  /\ lastOp' = [op |-> op, key |-> << >>, exc |-> "", ret |-> None, sent |-> << >>]
  /\ UNCHANGED <<remote, style, fault, faultIn, data, cursor, state, idx, capacity,
                 page_size, extra_params, pc, start, iter, fetched>>
  /\ UNCHANGED offPag

\* what the method that called get_by_idx makes of its outcome r
Wrapped(r) ==
  IF run.op = "getitem" THEN index_error(r)
  ELSE IF run.op = "first" THEN first_result(r)
  ELSE IF run.op = "next" THEN next_result(index_error(r))
  ELSE slice_data(r, run.seg[1])

\* The read ends as the outcome r of its method.
Finish(r) ==
  \E w \in {r} :
    /\ run' = Idle
    /\ data' = w.self.data
    /\ cursor' = w.self.cursor
    /\ state' = w.self.state
    /\ idx' = w.self.idx
    /\ lastOp' = [lastOp EXCEPT !.exc = w.exc, !.ret = w.ret, !.sent = @ \o w.self.sent]
    /\ fetched' = fetched \o Answered(w.self.sent, "none", 0)

\* get_by_idx after its self.fetch() ended as r: it raises, or calls
\* itself again
Fetched(r) ==
  \E f \in {r} :
    IF f.exc = "NoMorePageDataException" THEN
      Finish(Wrapped(Raise([f.self EXCEPT !.state = "NoMoreData"],
                           "OutOfRangePageDataException")))
    ELSE IF f.exc # "" THEN Finish(Wrapped(f))
    ELSE /\ run' = [run EXCEPT !.last = ""]
         /\ data' = f.self.data
         /\ cursor' = f.self.cursor
         /\ state' = f.self.state
         /\ lastOp' = [lastOp EXCEPT !.sent = @ \o f.self.sent]
         /\ fetched' = fetched \o Answered(f.self.sent, "none", 0)
         /\ UNCHANGED idx

\* One pass through get_by_idx: the item is cached, or the capacity is
\* reached, or one more page is fetched.
LoopStep ==
  /\ run # Idle
  /\ IF run.i = None THEN Finish(Wrapped(Return(Self, None)))
     ELSE IF data # << >> /\ run.i[1] < Len(data)
       THEN Finish(Wrapped(Indexed(Self, PyIndex(data, run.i[1]))))
     ELSE IF data # << >> /\ capacity # None
       THEN Finish(Wrapped(Raise(Self, "OutOfRangePageDataException")))
     ELSE Fetched(fetch(Self))
  /\ UNCHANGED <<remote, style, fault, faultIn, capacity, page_size, extra_params,
                 pc, start, iter>>
  /\ UNCHANGED offPag

NextLoop ==
  \/ Construct
  \/ \E i \in (-MaxBack)..MaxIdx : StartRead("getitem", None, Some(i))
  \/ \E seg \in HeadSlices : StartRead("slice", Some(seg), calc_max_idx_we_need(seg))
  \/ StartRead("first", None, Some(0))
  \/ StartRead("next", None, Some(idx))
  \/ LoopStep

\* A call that has begun goes on: the interpreter does not stop inside it.
SpecLoop == InitLoop /\ [][NextLoop]_vars /\ WF_vars(LoopStep)

\* ------------------------------------------- for loops over a collection
\* the loops that run over the one collection, and the items a loop takes
\* at most before it leaves
Loops == {"L1", "L2"}
MaxTake == 3

\* A lazy collection constructed without a cursor and no loop begun.
InitIter ==
  /\ InitOne
  /\ objs = << >>
  /\ capacity = None
  /\ cursor = None
  /\ style = "emptyNext"
  /\ page_size # None
  /\ loops = [l \in Loops |-> [at |-> "out", got |-> << >>]]

\* The loop's call on the collection ended as r; everything but the
\* collection and the loops is left alone.
ForCall(r, op) ==
  /\ pc = "ready"
  /\ Effect(r, op, << >>)
  /\ UNCHANGED <<pc, gateVars, boxVars, objs>>

\* for x in c: the loop l begins with iter(c)
ForIter(l) ==
  /\ loops[l].at # "in"
  /\ ForCall(iter_self(Self), "iter")
  /\ loops' = [loops EXCEPT ![l] = [at |-> "in", got |-> << >>]]

\* the loop l calls next(c): it receives an item and runs its body, or it
\* ends on StopIteration
ForNext(l) ==
  /\ loops[l].at = "in"
  /\ Len(loops[l].got) < MaxTake
  /\ ForCall(next(Self), "next")
  /\ loops' = [loops EXCEPT ![l] =
                IF lastOp'.exc = "" THEN [@ EXCEPT !.got = Append(@, lastOp'.ret[1])]
                ELSE [@ EXCEPT !.at = "done"]]

\* break: the loop l is left before the collection is exhausted
ForBreak(l) ==
  /\ loops[l].at = "in"
  /\ loops' = [loops EXCEPT ![l].at = "left"]
  /\ UNCHANGED <<pagVars, gateVars, boxVars, objs>>

NextIter ==
  \/ Construct
  \/ \E l \in Loops : ForIter(l)
  \/ \E l \in Loops : ForNext(l)
  \/ \E l \in Loops : ForBreak(l)

SpecIter == InitIter /\ [][NextIter]_vars

\* ------------------------------------------------------- the box helpers
\* dict keys and values a helper is called with: None, "" and other strings
BoxKeys == {None, Some("a"), Some("b")}
BoxValues == {None, Some(""), Some("c")}
BoxDicts == UNION {[K -> BoxValues] : K \in SUBSET BoxKeys}

\* A helper is about to be called with None or with a dict.
InitBox ==
  /\ NoCollection
  /\ GateOff
  /\ boxIn \in {None} \cup {Some(d) : d \in BoxDicts}
  /\ boxOut = NoCall

\* The call fn(boxIn) ended as r.
BoxCall(fn, r) ==
  /\ boxOut = NoCall
  /\ boxOut' = [fn |-> fn, ret |-> r.ret, d |-> r.d]
  /\ UNCHANGED boxIn
  /\ UNCHANGED offBox

CallRemoveNone == BoxCall("remove_none", remove_none_call(boxIn))

CallGetOnlyValue == boxIn # None /\ BoxCall("get_only_value", get_only_value_call(boxIn))

CallGet == BoxCall("_get", get_params(boxIn))

NextBox ==
  \/ CallRemoveNone
  \/ CallGetOnlyValue
  \/ CallGet

SpecBox == InitBox /\ [][NextBox]_vars

\* ------------------------------------------------------- the request gate
\* MIN_REQ_INTERVAL_SEC = 0.1 s, in ticks of 0.05 s
MIN_REQ_INTERVAL_SEC == 2

Threads == {"T1", "T2"}

\* A thread outside BaseAPI._request.
Outside == [pc |-> "idle", req_at |-> 0, seen |-> 0, slept |-> FALSE, until |-> 0]

\* time passes
Tick ==
  /\ now < MaxTime
  /\ now' = now + 1
  /\ UNCHANGED <<LATEST_REQ_AT, gate, issued>>
  /\ UNCHANGED offGate

\* Mutant of GateRead: a lock is taken, held until the request is sent.
GateRead_locked(t) ==
  /\ gate[t].pc = "idle"
  /\ \A u \in DOMAIN gate : gate[u].pc = "idle"
  /\ gate' = [gate EXCEPT ![t].pc = "read", ![t].req_at = now]
  /\ UNCHANGED <<now, LATEST_REQ_AT, issued>>
  /\ UNCHANGED offGate

\* frequency_detector: req_at = time.time()
GateRead(t) ==
  /\ gate[t].pc = "idle"
  /\ gate' = [gate EXCEPT ![t].pc = "read", ![t].req_at = now]
  /\ UNCHANGED <<now, LATEST_REQ_AT, issued>>
  /\ UNCHANGED offGate

\* frequency_detector: if req_at - LATEST_REQ_AT <= MIN_REQ_INTERVAL_SEC
\* then time.sleep(MIN_REQ_INTERVAL_SEC) begins
GateCheck(t) ==
  /\ gate[t].pc = "read"
  /\ gate' = [gate EXCEPT
       ![t].seen = LATEST_REQ_AT,
       ![t].slept = (gate[t].req_at - LATEST_REQ_AT <= MIN_REQ_INTERVAL_SEC),
       ![t].until = now + MIN_REQ_INTERVAL_SEC,
       ![t].pc = IF gate[t].req_at - LATEST_REQ_AT <= MIN_REQ_INTERVAL_SEC
                 THEN "sleep" ELSE "store"]
  /\ UNCHANGED <<now, LATEST_REQ_AT, issued>>
  /\ UNCHANGED offGate

\* time.sleep(MIN_REQ_INTERVAL_SEC) returns: not before the interval is over
GateWake(t) ==
  /\ gate[t].pc = "sleep"
  /\ now >= gate[t].until
  /\ gate' = [gate EXCEPT ![t].pc = "store"]
  /\ UNCHANGED <<now, LATEST_REQ_AT, issued>>
  /\ UNCHANGED offGate

\* Mutant of GateStore: the time after the sleep is recorded.
GateStore_now(t) ==
  /\ gate[t].pc = "store"
  /\ LATEST_REQ_AT' = now
  /\ gate' = [gate EXCEPT ![t].pc = "send"]
  /\ UNCHANGED <<now, issued>>
  /\ UNCHANGED offGate

\* frequency_detector: LATEST_REQ_AT = req_at
GateStore(t) ==
  /\ gate[t].pc = "store"
  /\ LATEST_REQ_AT' = gate[t].req_at
  /\ gate' = [gate EXCEPT ![t].pc = "send"]
  /\ UNCHANGED <<now, issued>>
  /\ UNCHANGED offGate

\* BaseAPI._request: _session.request(...) sends the request
Send(t) ==
  /\ gate[t].pc = "send"
  /\ issued' = LastOne(issued) \o
                <<[by |-> t, at |-> now, req_at |-> gate[t].req_at, seen |-> gate[t].seen,
                   slept |-> gate[t].slept, stored |-> LATEST_REQ_AT]>>
  /\ gate' = [gate EXCEPT ![t] = Outside]
  /\ UNCHANGED <<now, LATEST_REQ_AT>>
  /\ UNCHANGED offGate

\* One thread calling the API.
InitGate ==
  /\ NoCollection
  /\ BoxOff
  /\ now = 0
  /\ LATEST_REQ_AT = 0
  /\ gate = [t \in {"T1"} |-> Outside]
  /\ issued = << >>

\* Two threads calling the API.
InitRace ==
  /\ NoCollection
  /\ BoxOff
  /\ now = 0
  /\ LATEST_REQ_AT = 0
  /\ gate = [t \in Threads |-> Outside]
  /\ issued = << >>

NextGate ==
  \/ Tick
  \/ \E t \in DOMAIN gate : GateRead(t)
  \/ \E t \in DOMAIN gate : GateCheck(t)
  \/ \E t \in DOMAIN gate : GateWake(t)
  \/ \E t \in DOMAIN gate : GateStore(t)
  \/ \E t \in DOMAIN gate : Send(t)

SpecGate == InitGate /\ [][NextGate]_vars

SpecRace == InitRace /\ [][NextGate]_vars

\* ------------------------------------------------------- two collections
\* two VultrPagination objects over the same listing
Insts == {"c1", "c2"}

\* self of the collection o
SelfOf(o) ==
  [Self EXCEPT !.data = objs[o].data, !.cursor = objs[o].cursor,
               !.state = objs[o].state, !.idx = objs[o].idx]

\* Mutant of Store: data is a list of the class, the same one for every
\* instance.
Store_class(o, r, at) ==
  [p \in DOMAIN objs |->
     IF p = o THEN [data |-> r.self.data, cursor |-> r.self.cursor,
                    state |-> r.self.state, idx |-> r.self.idx, pc |-> at]
     ELSE [objs[p] EXCEPT !.data = r.self.data]]

\* Where the assignments of a call on o land: data, cursor, state and
\* __idx are attributes __init__ has set on the instance.
Store(o, r, at) ==
  [objs EXCEPT ![o] = [data |-> r.self.data, cursor |-> r.self.cursor,
                       state |-> r.self.state, idx |-> r.self.idx, pc |-> at]]

\* Two lazy collections constructed with the same arguments, no cursor.
InitTwo ==
  /\ InitOne
  /\ capacity = None
  /\ cursor = None
  /\ style = "emptyNext"
  /\ page_size # None
  /\ loops = << >>
  /\ objs = [o \in Insts |-> [data |-> << >>, cursor |-> cursor, state |-> "NeverFetch",
                              idx |-> 0, pc |-> "init"]]

\* The call op on the collection o ended as r and left o at at; each of its
\* requests went through frequency_detector, which sets LATEST_REQ_AT.
TwoCall(o, r, op, at) ==
  /\ objs' = Store(o, r, at)
  /\ lastOp' = [op |-> op, key |-> <<o>>, exc |-> r.exc, ret |-> r.ret, sent |-> r.self.sent]
  /\ LATEST_REQ_AT' = IF r.self.sent # << >> THEN now ELSE LATEST_REQ_AT
  /\ UNCHANGED <<remote, style, fault, faultIn, data, cursor, state, idx, capacity,
                 page_size, extra_params, pc, start, iter, fetched, run>>
  /\ UNCHANGED <<now, gate, issued, boxVars, loops>>

\* VultrPagination(...) of o, its last line
TwoConstruct(o) ==
  /\ objs[o].pc = "init"
  /\ TwoCall(o, check_prefetch(SelfOf(o), capacity), "init", "ready")

\* o[i]
TwoGetItem(o, i) ==
  /\ objs[o].pc = "ready"
  /\ TwoCall(o, getitem_int(SelfOf(o), i), "getitem", "ready")

\* next(o)
TwoNext(o) ==
  /\ objs[o].pc = "ready"
  /\ TwoCall(o, next(SelfOf(o)), "next", "ready")

NextTwo ==
  \/ \E o \in Insts : TwoConstruct(o)
  \/ \E o \in Insts : \E i \in 0..MaxStart : TwoGetItem(o, i)
  \/ \E o \in Insts : TwoNext(o)
  \/ Tick

SpecTwo == InitTwo /\ [][NextTwo]_vars

\* ------------------------------------------------------------------ claims
\* The remote list as the collection sees it: the items from the
\* construction-time cursor on.
View ==
  IF start = None THEN remote
  ELSE IF start = Some("") THEN << >>
  ELSE SubSeq(remote, OffsetOf(start[1]) + 1, Len(remote))

\* lst[a:b] for 0 <= a, b, written out position by position
Window(lst, a, b) == [k \in 1..(Min(b, Len(lst)) - a) |-> lst[a + k]]

\* the calls that read the collection
Reads == {"getitem", "slice", "next", "first"}

\* C1: constructing a collection with capacity N > 0 completes without
\* raising and leaves len(cache) = min(N, number of remote items), also when
\* the first page holds fewer than N items.
C1_PrefetchCompletes ==
  (lastOp.op = "init" /\ capacity # None /\ capacity # Some(0))
    => (lastOp.exc = "" /\ Len(data) = Min(capacity[1], Len(View)))

\* C2: on a lazy collection c[i] returns the i-th remote item for
\* 0 <= i < T and raises IndexError for i >= T, whatever calls came before,
\* and no read ends in OutOfRangePageDataException or NoMorePageDataException.
C2_LazyIndexing ==
  capacity = None =>
    /\ (lastOp.op = "getitem" /\ lastOp.key[1] >= 0) =>
         IF lastOp.key[1] < Len(View)
         THEN lastOp.exc = "" /\ lastOp.ret = Some(View[lastOp.key[1] + 1])
         ELSE lastOp.exc = "IndexError"
    /\ lastOp.op \in Reads =>
         lastOp.exc \notin {"OutOfRangePageDataException", "NoMorePageDataException"}

\* C2 witness: c[2] answered with the third remote item after two fetcher
\* calls, and, in another state, c[i] past the end ended in IndexError.
C2_Witness ==
  /\ capacity = None /\ lastOp.op = "getitem" /\ lastOp.key = <<2>>
  /\ lastOp.exc = "" /\ lastOp.ret = Some(remote[3]) /\ Len(lastOp.sent) = 2

C2_WitnessPastEnd ==
  /\ capacity = None /\ lastOp.op = "getitem" /\ lastOp.key[1] >= Len(View)
  /\ Len(View) > 0 /\ lastOp.exc = "IndexError" /\ Len(lastOp.sent) > 0

\* C3: the cache only grows by appending: in every step len(cache) does not
\* decrease and the items already cached stay where they are.
C3_AppendOnly ==
  [][Len(data') >= Len(data) /\ SubSeq(data', 1, Len(data)) = data]_vars

\* C3 witness: a fetch() appended a page behind items cached before it.
C3_Witness ==
  /\ lastOp.op = "fetch" /\ lastOp.exc = "" /\ lastOp.ret # << >>
  /\ Len(data) > Len(lastOp.ret)

\* C4: with capacity = N, len(cache) <= N in every reachable state.
C4_CapacityCap == capacity # None => Len(data) <= capacity[1]

\* C4 witness: the page answered to the constructor held more items than
\* the capacity, and only the part that fits was cached.
C4_Witness ==
  /\ lastOp.op = "init" /\ lastOp.exc = "" /\ capacity = Some(1) /\ Len(data) = 1
  /\ Len(lastOp.sent) = 1 /\ Len(ServerPage(lastOp.sent[1]).items) = 2

\* C5: when capacity is set (0 included), no read of the constructed
\* collection invokes the fetch callable.
C5_CapacityNoFetch ==
  (capacity # None /\ lastOp.op \in Reads) => lastOp.sent = << >>

\* C6: once state is NoMoreData, no later read invokes the fetch callable.
C6_NoFetchAfterNoMoreData ==
  [][(state = "NoMoreData" /\ lastOp'.op \in Reads) => lastOp'.sent = << >>]_vars

\* C7: NoMoreData is terminal: state never changes from NoMoreData.
C7_NoMoreDataTerminal ==
  [][state = "NoMoreData" => state' = "NoMoreData"]_vars

\* the links object of the page a fetch() that returned had been answered
PageLinks(op) == ServerPage(op.sent[1]).meta.links

C9_ReIteration ==
  capacity = None =>
    /\ Len(iter.passes) = 2 =>
         /\ iter.passes[2].items = iter.passes[1].items
         /\ iter.passes[2].calls = 0
    /\ lastOp.op = "next" => lastOp.exc \in {"", "StopIteration"}

\* C10: slicing a lazy collection past the end of the remote data never
\* raises: c[a:b] with 0 <= a < b returns the remote items whose index lies
\* in [a, b) and that exist.
C10_SliceOverrun ==
  (capacity = None /\ lastOp.op = "slice" /\ lastOp.key[1].step = None
     /\ lastOp.key[1].start # None /\ lastOp.key[1].stop # None
     /\ 0 <= lastOp.key[1].start[1] /\ lastOp.key[1].start[1] < lastOp.key[1].stop[1])
    => /\ lastOp.exc = ""
       /\ lastOp.ret = Window(View, lastOp.key[1].start[1], lastOp.key[1].stop[1])

\* C10 witness: c[0:b] with b past the end returned all three remote items
\* after fetching every page.
C10_Witness ==
  /\ capacity = None /\ lastOp.op = "slice" /\ lastOp.exc = ""
  /\ lastOp.key[1].start = Some(0) /\ lastOp.key[1].stop # None
  /\ lastOp.key[1].stop[1] > Len(remote)
  /\ Len(remote) = 3 /\ lastOp.ret = remote /\ Len(lastOp.sent) >= 2

\* the slice bounds as calc_max_idx_we_need defaults them
SegStart(seg) == IF seg.start = None THEN 0 ELSE seg.start[1]
SegStop(seg) == IF seg.stop = None THEN SysMaxSize ELSE seg.stop[1]
SegStep(seg) == IF seg.step = None THEN 1 ELSE seg.step[1]

\* C11: on a lazy collection over an unchanging remote list L, every slice
\* c[start:stop:step] with step # 0 returns L[start:stop:step], with negative
\* or omitted bounds and negative steps too, whatever the cache held before.
C11_SliceAsList ==
  (capacity = None /\ lastOp.op = "slice" /\ SegStep(lastOp.key[1]) # 0)
    => /\ lastOp.exc = ""
       /\ lastOp.ret = PySlice(View, lastOp.key[1]).ret

\* C12: on a lazy collection c[-1] fetches every remaining page and returns
\* the last item of the whole remote list, and a slice with a step forward
\* and a negative bound or an omitted stop fetches every remaining page too.
C12_TailFetchesAll ==
  capacity = None =>
    /\ (lastOp.op = "getitem" /\ lastOp.key = <<-1>> /\ View # << >>) =>
         /\ lastOp.exc = ""
         /\ lastOp.ret = Some(View[Len(View)])
         /\ data = View
    /\ (lastOp.op = "slice" /\ SegStep(lastOp.key[1]) > 0
          /\ (lastOp.key[1].stop = None \/ SegStop(lastOp.key[1]) < 0
                \/ SegStart(lastOp.key[1]) < 0)) =>
         data = View

\* C13: a slice with step # 0 whose defaulted bounds satisfy
\* (stop - start) * step <= 0 makes no fetcher call and returns an empty
\* result, whatever the cache holds.
C13_InvalidSliceEmpty ==
  (lastOp.op = "slice" /\ SegStep(lastOp.key[1]) # 0
     /\ (SegStop(lastOp.key[1]) - SegStart(lastOp.key[1])) * SegStep(lastOp.key[1]) <= 0)
    => /\ lastOp.sent = << >>
       /\ lastOp.exc = ""
       /\ lastOp.ret = << >>

\* C14: when the answer to a fetch() has no meta key, fetch raises
\* UnexpectedPageDataException and state is what it was before the call.
C14_NoMetaKeepsState ==
  [][(lastOp'.op = "fetch" /\ fault = "nometa" /\ fault' = "none") =>
       /\ lastOp'.exc = "UnexpectedPageDataException"
       /\ state' = state]_vars

\* C15: an answer without meta, or with no or several resource keys, makes
\* the call that fetched it (construction, c[i], c[slice], next, first)
\* raise UnexpectedPageDataException; the rejected request is the last one
\* of the call, and cache and cursor are what the pages answered before it
\* made them: unchanged when it was the call's first request.
C15_BadBodyRaises ==
  [][(fault \in BadBodies /\ fault' = "none") =>
       /\ lastOp'.exc = "UnexpectedPageDataException"
       /\ Len(lastOp'.sent) = faultIn + 1
       /\ data' = data \o Answered(lastOp'.sent, fault, faultIn)
       /\ faultIn = 0 => (data' = data /\ cursor' = cursor)
       /\ faultIn > 0 => cursor' = ServerPage(lastOp'.sent[faultIn]).meta.links.next
    ]_vars

\* C15 witness: c[i] on a lazy collection fetched one page, was answered a
\* body with two resource keys to its second request and raised.
C15_Witness ==
  /\ capacity = None /\ lastOp.op = "getitem"
  /\ lastOp.exc = "UnexpectedPageDataException"
  /\ Len(lastOp.sent) = 2 /\ Len(data) = 1 /\ cursor = Some(Token(1))
  /\ fault = "none"

\* C15 witness: the constructor of a collection with a capacity raised.
C15_WitnessInit ==
  /\ capacity # None /\ lastOp.op = "init" /\ pc = "failed"
  /\ lastOp.exc = "UnexpectedPageDataException" /\ data = << >>

\* the last request of a call that made one
LastSent(op) == op.sent[Len(op.sent)]

\* C16: a page with meta and an empty item list is exhaustion, not an
\* error: the read it was answered to ends with state = NoMoreData and in
\* IndexError (c[i]), StopIteration (next), None (first) or the slice of
\* what exists, never in UnexpectedPageDataException.
C16_EmptyPageExhausts ==
  (lastOp.op \in Reads /\ lastOp.sent # << >>
     /\ ServerPage(LastSent(lastOp)).items = << >>)
    => /\ state = "NoMoreData"
       /\ lastOp.op = "getitem" => lastOp.exc = "IndexError"
       /\ lastOp.op = "next" => lastOp.exc = "StopIteration"
       /\ lastOp.op = "first" => (lastOp.exc = "" /\ lastOp.ret = None)
       /\ lastOp.op = "slice" =>
            /\ lastOp.exc = ""
            /\ lastOp.ret = Window(View, lastOp.key[1].start[1], lastOp.key[1].stop[1])

\* C16 witness: c[i] past the end of a non-empty remote list whose last
\* page still named a next link was answered an empty page.
C16_Witness ==
  /\ style = "emptyPage" /\ capacity = None /\ lastOp.op = "getitem"
  /\ Len(lastOp.sent) >= 2 /\ ServerPage(LastSent(lastOp)).items = << >>
  /\ data # << >> /\ lastOp.exc = "IndexError" /\ state = "NoMoreData"

C17_WitnessItem ==
  /\ capacity = None /\ remote # << >> /\ start = None /\ lastOp.op = "first"
  /\ lastOp.ret = Some(remote[1]) /\ Len(lastOp.sent) = 1

\* C18: on a lazy collection c[i], i >= 0, makes no fetcher call when item i
\* is cached; otherwise every call it makes fetches another page, the pages
\* it was answered are appended to the cache, and when it returns the last
\* page is the first one that made len(cache) > i.
C18_FetchOnlyAsNeeded ==
  [][(capacity = None /\ lastOp'.op = "getitem" /\ lastOp'.key[1] >= 0) =>
       IF lastOp'.key[1] < Len(data) THEN lastOp'.sent = << >>
       ELSE /\ \A j, k \in 1..Len(lastOp'.sent) : j < k => lastOp'.sent[j] # lastOp'.sent[k]
            /\ data' = data \o Answered(lastOp'.sent, "none", 0)
            /\ lastOp'.exc = "" =>
                 /\ lastOp'.sent # << >>
                 /\ Len(data') > lastOp'.key[1]
                 /\ Len(data') - Len(ServerPage(LastSent(lastOp')).items) <= lastOp'.key[1]
    ]_vars

\* C18 witness: c[2] over the pages [A, B], [A] of a fresh lazy collection
\* returned after two fetcher calls.
C18_Witness ==
  /\ capacity = None /\ start = None /\ page_size = Some(2) /\ Len(remote) = 3
  /\ lastOp.op = "getitem" /\ lastOp.key = <<2>> /\ lastOp.exc = ""
  /\ Len(lastOp.sent) = 2 /\ "cursor" \notin DOMAIN lastOp.sent[1]
  /\ lastOp.sent[2]["cursor"] = Some(Token(2)) /\ data = remote

\* per_page as the server applies it
PerPage == IF page_size = None THEN DefaultPerPage ELSE page_size[1]

\* C19: when the first page holds at least N items, constructing with
\* capacity N >= 1 makes exactly one fetcher call and caches the first N
\* items of that page in order; first() and c[0..N-1] then return those
\* items and c[N] raises IndexError, all without a fetcher call.
C19_CapacityPrefetch ==
  (capacity # None /\ capacity # Some(0) /\ Min(PerPage, Len(View)) >= capacity[1]) =>
    /\ lastOp.op = "init" =>
         /\ lastOp.exc = "" /\ Len(lastOp.sent) = 1
         /\ data = Take(ServerPage(lastOp.sent[1]).items, capacity[1])
    /\ pc # "failed"
    /\ pc = "ready" => data = Take(View, capacity[1])
    /\ lastOp.op \in Reads => lastOp.sent = << >>
    /\ lastOp.op = "first" => (lastOp.exc = "" /\ lastOp.ret = Some(View[1]))
    /\ (lastOp.op = "getitem" /\ lastOp.key[1] >= 0) =>
         IF lastOp.key[1] < capacity[1]
         THEN lastOp.exc = "" /\ lastOp.ret = Some(View[lastOp.key[1] + 1])
         ELSE lastOp.exc = "IndexError"

\* C19 witness: a collection constructed with capacity 2 over a first page
\* of 2 items raised IndexError for c[2] without a fetcher call.
C19_Witness ==
  /\ capacity = Some(2) /\ PerPage = 2 /\ Len(remote) = 3 /\ start = None
  /\ lastOp.op = "getitem" /\ lastOp.key = <<2>> /\ lastOp.exc = "IndexError"
  /\ lastOp.sent = << >> /\ data = Take(remote, 2) /\ Len(fetched) = 2

\* C20: the cache is the concatenation, in fetch order, of the item lists
\* of the pages fetched so far, cut off at capacity when it is set.
C20_CacheIsPages ==
  data = IF capacity = None THEN fetched ELSE Take(fetched, capacity[1])

\* C20 witness: three pages of one item each, the first and the third item
\* equal, are all cached in fetch order.
C20_Witness ==
  /\ capacity = None /\ page_size = Some(1) /\ Len(remote) = 3 /\ start = None
  /\ remote[1] = remote[3] /\ fetched = remote /\ data = remote

\* C21: an APIException of the fetcher (a non-2xx answer) propagates through
\* construction, c[i], c[slice], next and first; the failed request is the
\* last one of the call, and cache, cursor and state are what they were
\* before that request: those of before the call when it was the call's
\* first request, those the page answered just before it made otherwise.
C21_ApiErrorPropagates ==
  [][(fault = "http" /\ fault' = "none") =>
       /\ lastOp'.exc = "APIException"
       /\ Len(lastOp'.sent) = faultIn + 1
       /\ data' = data \o Answered(lastOp'.sent, fault, faultIn)
       /\ faultIn = 0 => (data' = data /\ cursor' = cursor /\ state' = state)
       /\ faultIn > 0 =>
            /\ cursor' = ServerPage(lastOp'.sent[faultIn]).meta.links.next
            /\ state' = "FetchAble"
    ]_vars

\* C21 witness: next(c) on a collection that had never fetched was answered
\* a non-2xx status to its first request and raised APIException.
C21_Witness ==
  /\ capacity = None /\ lastOp.op = "next" /\ lastOp.exc = "APIException"
  /\ Len(lastOp.sent) = 1 /\ data = << >> /\ cursor = None
  /\ state = "NeverFetch" /\ fault = "none"

\* C21 witness: a slice read fetched one page and failed on the second.
C21_WitnessSecondPage ==
  /\ capacity = None /\ lastOp.op = "slice" /\ lastOp.exc = "APIException"
  /\ Len(lastOp.sent) = 2 /\ Len(data) = 1 /\ state = "FetchAble"

\* C22: with one thread, any two consecutive requests that passed the gate
\* are sent at least MIN_REQ_INTERVAL_SEC apart.
C22_Spacing ==
  Len(issued) = 2 => issued[2].at - issued[1].at >= MIN_REQ_INTERVAL_SEC

\* C27: a call of the gate sleeps, for the minimum interval, exactly when
\* the time it read at entry is no more than MIN_REQ_INTERVAL_SEC after the
\* recorded last-call time, and slept or not it records the time it read at
\* entry as the last-call time, not the time the request is sent.
C27_GateRecordsEntryTime ==
  \A k \in 1..Len(issued) :
    /\ issued[k].slept <=> (issued[k].req_at - issued[k].seen <= MIN_REQ_INTERVAL_SEC)
    /\ issued[k].slept => issued[k].at >= issued[k].req_at + MIN_REQ_INTERVAL_SEC
    /\ issued[k].stored = issued[k].req_at
    /\ issued[k].req_at <= issued[k].at

\* C27 witness: a call that did not sleep and then a call that slept; the
\* second one's request was sent later than the time recorded for it.
C27_Witness ==
  /\ DOMAIN gate = {"T1"} /\ Len(issued) = 2
  /\ ~issued[1].slept /\ issued[1].stored = issued[1].req_at
  /\ issued[2].slept /\ issued[2].stored = issued[2].req_at
  /\ issued[2].at > issued[2].stored /\ LATEST_REQ_AT = issued[2].req_at

\* the threads between reading the time and recording it
InGate == {t \in DOMAIN gate : gate[t].pc \in {"read", "sleep", "store"}}

\* C28: with two threads nothing excludes one thread from the gate while
\* the other is inside: whatever step of the gate a thread is at, it can
\* take it while the other thread is between reading the time and
\* recording it.
C28_NoMutualExclusion ==
  \A t \in InGate : \A u \in DOMAIN gate \ {t} :
    /\ gate[u].pc = "idle" => ENABLED GateRead(u)
    /\ gate[u].pc = "read" => ENABLED GateCheck(u)
    /\ gate[u].pc = "store" => ENABLED GateStore(u)
    /\ gate[u].pc = "send" => ENABLED Send(u)

\* C28 witness: both threads compared with the same old timestamp, neither
\* slept, and their requests were sent less than MIN_REQ_INTERVAL_SEC apart.
C28_Witness ==
  /\ Len(issued) = 2 /\ issued[1].by # issued[2].by
  /\ issued[1].seen = issued[2].seen
  /\ ~issued[1].slept /\ ~issued[2].slept
  /\ issued[2].at - issued[1].at < MIN_REQ_INTERVAL_SEC

\* the dict a helper was called with, the empty dict for None
BoxArg == IF boxIn = None THEN << >> ELSE boxIn[1]

\* C23: get_only_value returns the value of the only key of a mapping with
\* exactly one key, None for a mapping with no key or with several, and
\* leaves its argument as it was.
C23_GetOnlyValue ==
  boxOut.fn = "get_only_value" =>
    /\ \A k \in BoxKeys : DOMAIN BoxArg = {k} => boxOut.ret = BoxArg[k]
    /\ Cardinality(DOMAIN BoxArg) # 1 => boxOut.ret = None
    /\ boxOut.d = boxIn

\* C23 witness: the mapping {None: "c"} gave "c".
C23_Witness ==
  /\ boxOut.fn = "get_only_value" /\ DOMAIN BoxArg = {None}
  /\ BoxArg[None] = Some("c") /\ boxOut.ret = Some("c")

\* C23 witness: a mapping with two keys gave None.
C23_WitnessTwoKeys ==
  /\ boxOut.fn = "get_only_value" /\ Cardinality(DOMAIN BoxArg) = 2
  /\ \A k \in DOMAIN BoxArg : BoxArg[k] # None
  /\ boxOut.ret = None

\* C24: remove_none returns a mapping, never None, that holds exactly the
\* entries of its argument whose value is not None ("" values and the key
\* None included) and is empty for None and for the empty mapping; it leaves
\* its argument as it was; and the params BaseAPI._get sends hold no entry
\* whose value is None.
C24_RemoveNone ==
  /\ boxOut.fn = "remove_none" =>
       /\ boxOut.ret # None
       /\ DOMAIN boxOut.ret[1] = {k \in DOMAIN BoxArg : BoxArg[k] # None}
       /\ \A k \in DOMAIN boxOut.ret[1] : boxOut.ret[1][k] = BoxArg[k]
       /\ boxOut.d = boxIn
  /\ boxOut.fn = "_get" =>
       /\ boxOut.ret # None =>
            /\ DOMAIN boxOut.ret[1] = {k \in DOMAIN BoxArg : BoxArg[k] # None}
            /\ \A k \in DOMAIN boxOut.ret[1] : boxOut.ret[1][k] = BoxArg[k]
       /\ boxOut.ret = None => \A k \in DOMAIN BoxArg : BoxArg[k] = None
       /\ boxOut.d = boxIn

\* C24 witness: of {None: "c", "a": None, "b": ""} the entries of None and
\* of "b" were kept.
C24_Witness ==
  /\ boxOut.fn = "remove_none" /\ DOMAIN BoxArg = BoxKeys
  /\ BoxArg[None] = Some("c") /\ BoxArg[Some("a")] = None /\ BoxArg[Some("b")] = Some("")
  /\ DOMAIN boxOut.ret[1] = {None, Some("b")}
  /\ boxOut.ret[1][None] = Some("c") /\ boxOut.ret[1][Some("b")] = Some("")

\* C24 witness: None gave the empty mapping.
C24_WitnessNone ==
  /\ boxOut.fn = "remove_none" /\ boxIn = None /\ boxOut.ret = Some(<< >>)

\* the cursor a request carries, None when it carries none
ReqCursor(p) == IF "cursor" \in DOMAIN p THEN p["cursor"] ELSE None

\* The next link of the last page processed before request j of the call
\* that sent the requests sent, the construction-time cursor when no page
\* has been processed; before is the history of pages at the call's start.
DueCursor(before, sent, j) ==
  IF before \o Answered(SubSeq(sent, 1, j - 1), "none", 0) = << >> THEN start
  ELSE Some(Token((IF start = None THEN 0 ELSE OffsetOf(start[1]))
                  + Len(before \o Answered(SubSeq(sent, 1, j - 1), "none", 0))))

\* C25: every page request carries the extra filter parameters that are
\* set, per_page exactly when page_size is set, and a cursor exactly when
\* one is known: the construction-time cursor until a page has been
\* processed, then the next link of the last page processed; never "".
C25_RequestParams ==
  [][\A j \in 1..Len(lastOp'.sent) :
       /\ DOMAIN lastOp'.sent[j] =
            {k \in DOMAIN extra_params : extra_params[k] # None}
            \cup (IF page_size # None THEN {"per_page"} ELSE {})
            \cup (IF DueCursor(fetched, lastOp'.sent, j) # None THEN {"cursor"} ELSE {})
       /\ \A k \in DOMAIN extra_params \cap DOMAIN lastOp'.sent[j] :
            lastOp'.sent[j][k] = extra_params[k]
       /\ page_size # None => lastOp'.sent[j]["per_page"] = page_size
       /\ ReqCursor(lastOp'.sent[j]) = DueCursor(fetched, lastOp'.sent, j)
       /\ ReqCursor(lastOp'.sent[j]) # Some("")
    ]_vars

\* C25 witness: a read sent a first request without cursor and without
\* per_page and a second one with the next link of the first page, both
\* with the filter that is set and without the one that is not.
C25_Witness ==
  /\ page_size = None /\ start = None /\ Len(lastOp.sent) = 2
  /\ DOMAIN lastOp.sent[1] = {"label"}
  /\ DOMAIN lastOp.sent[2] = {"label", "cursor"}
  /\ lastOp.sent[2]["cursor"] = ServerPage(lastOp.sent[1]).meta.links.next
  /\ lastOp.sent[2]["label"] = Some("web")

\* C26: on a lazy collection over a server that signals exhaustion by an
\* empty next link or an empty page, every read that has begun ends, and
\* every fetch of it that returns without raising makes the cache longer.
C26_ReadsTerminate ==
  /\ (run # Idle) ~> (run = Idle)
  /\ [][(run # Idle /\ run' # Idle /\ run'.last = ""
          /\ Len(lastOp'.sent) > Len(lastOp.sent)) => Len(data') > Len(data)]_vars

\* C26 witness: a read past the end has ended after fetching every page and
\* one empty page behind them.
C26_Witness ==
  /\ run = Idle /\ style = "emptyPage" /\ page_size = Some(1) /\ Len(remote) = 3
  /\ lastOp.op = "getitem" /\ lastOp.exc = "IndexError"
  /\ Len(lastOp.sent) = 4 /\ data = remote

\* C30: the collection is its own iterator and has one position for all
\* loops over it: iter(c) leaves the position where it is, the position
\* moves only in next(c), by one when an item is returned and back to 0 when
\* StopIteration is raised, and whichever loop calls next(c) receives the
\* item at that one position.
C30_SharedPosition ==
  [][/\ idx' # idx =>
          /\ lastOp'.op = "next"
          /\ \/ lastOp'.exc = "" /\ idx' = idx + 1
             \/ lastOp'.exc = "StopIteration" /\ idx' = 0
     /\ \A l \in DOMAIN loops :
          /\ (loops[l].at # "in" /\ loops'[l].at = "in") => idx' = idx
          /\ Len(loops'[l].got) > Len(loops[l].got) =>
               /\ idx < Len(remote)
               /\ loops'[l].got = Append(loops[l].got, remote[idx + 1])
               /\ idx' = idx + 1]_vars

\* C30 witness: a loop was left after one item, and the loop begun after it
\* received the second item first.
C30_Witness ==
  /\ loops # << >>
  /\ loops["L1"] = [at |-> "left", got |-> <<Item(1)>>]
  /\ loops["L2"].at = "in" /\ loops["L2"].got = <<Item(2)>>
  /\ lastOp.op = "next" /\ idx = 2

\* C30 witness: of three items one loop received the first and the third and
\* ended, the loop running between its steps received the second.
C30_WitnessInterleaved ==
  /\ loops # << >> /\ Len(remote) = 3
  /\ loops["L1"] = [at |-> "done", got |-> <<Item(1), Item(3)>>]
  /\ loops["L2"] = [at |-> "in", got |-> <<Item(2)>>]
  /\ lastOp.exc = "StopIteration" /\ idx = 0

====
